---- MODULE Spec2Model ----
(***************************************************************************)
(* A model of GenericFormParser (src/mb_src/parse_form_html.py).           *)
(*                                                                         *)
(* Texts are sequences of one-character strings, so that the regular       *)
(* expressions of the parser are computed character by character.  A       *)
(* Python None is the empty sequence <<>> and a present optional value v   *)
(* is the one-element sequence <<v>>.                                      *)
(*                                                                         *)
(* The document tree that BeautifulSoup builds is modelled as a flat       *)
(* sequence of sibling tags (soup).  A tag is a record                     *)
(*     [name |-> tag name, text |-> text directly inside the tag,          *)
(*      trs |-> the tr rows of a table, each a sequence of th/td cells].   *)
(* The locals of parse_html keep their last values after the call ends,    *)
(* until the next call sets them again.                                    *)
(***************************************************************************)
EXTENDS Integers, Sequences, FiniteSets, TLC

None == <<>>
Some(v) == <<v>>

Digit == {"0", "1", "2", "3", "4", "5", "6", "7", "8", "9"}
\* the characters str.strip() removes and the regex class \s matches
Space == {" ", "\n"}
Roman == {"I", "V", "X"}
\* the two characters of the source that are not ASCII, each one character
EnDash == "[en dash]"
Box == "[box]"

\* \d{1,3}: an amount starts with at most three digits
AmountDigits == 3

Min(S) == CHOOSE x \in S : \A y \in S : x <= y
Max(S) == CHOOSE x \in S : \A y \in S : x >= y

\* s[from..], the rest of a text
Rest(s, from) == SubSeq(s, from, Len(s))

\* str.strip()
strip(s) ==
    LET keep == {k \in 1..Len(s) : s[k] \notin Space}
    IN  IF keep = {} THEN <<>> ELSE SubSeq(s, Min(keep), Max(keep))

\* the number of characters of s from position p on that belong to class
RECURSIVE Run(_, _, _)
Run(s, p, class) ==
    IF p <= Len(s) /\ s[p] \in class THEN 1 + Run(s, p + 1, class) ELSE 0

\* the characters a regex "." runs over from position p: up to the next newline
DotRun(s, p) ==
    LET nl == {k \in p..Len(s) : s[k] = "\n"}
    IN  IF nl = {} THEN Len(s) - p + 1 ELSE Min(nl) - p

\* word occurs in s at position p
At(s, p, word) ==
    /\ p >= 1
    /\ p + Len(word) - 1 <= Len(s)
    /\ SubSeq(s, p, p + Len(word) - 1) = word

\* ' '.join(parts)
RECURSIVE join(_)
join(parts) ==
    IF parts = <<>> THEN <<>>
    ELSE IF Len(parts) = 1 THEN parts[1]
    ELSE parts[1] \o <<" ">> \o join(Tail(parts))

\* reversed(seq)
reversed(seq) == [k \in 1..Len(seq) |-> seq[Len(seq) + 1 - k]]

\* [f(x) for x in seq if keep], as the subsequence of the positions in idx
RECURSIVE Pick(_, _)
Pick(seq, idx) ==
    IF idx = {} THEN <<>>
    ELSE LET k == Min(idx) IN <<seq[k]>> \o Pick(seq, idx \ {k})

\* every position a..b of s exists and holds a character of class
AllIn(s, a, b, class) ==
    /\ a >= 1
    /\ b <= Len(s)
    /\ \A k \in a..b : s[k] \in class

(***************************************************************************)
(* Text Classifier                                                         *)
(***************************************************************************)

\* re.search(r'\d{3}-\d{2}-\d{4}', text) matches at position p
SsnAt(s, p) ==
    /\ AllIn(s, p, p + 2, Digit)
    /\ At(s, p + 3, <<"-">>)
    /\ AllIn(s, p + 4, p + 5, Digit)
    /\ At(s, p + 6, <<"-">>)
    /\ AllIn(s, p + 7, p + 10, Digit)

\* extract_ssn: the first SSN-shaped substring, "" when there is none
extract_ssn(text) ==
    LET hits == {p \in 1..Len(text) : SsnAt(text, p)}
    IN  IF hits = {} THEN <<>> ELSE SubSeq(text, Min(hits), Min(hits) + 10)

\* the length of the greedy match of (?:,\d{3})* at position p
RECURSIVE CommaGroups(_, _)
CommaGroups(s, p) ==
    IF At(s, p, <<",">>) /\ AllIn(s, p + 1, p + 3, Digit)
    THEN 4 + CommaGroups(s, p + 4)
    ELSE 0

\* the length of the greedy match of (?:\.\d+)? at position p
Fraction(s, p) ==
    IF At(s, p, <<".">>) /\ AllIn(s, p + 1, p + 1, Digit)
    THEN 1 + Run(s, p + 1, Digit)
    ELSE 0

\* extract_amount: the first match of \$?\d{1,3}(?:,\d{3})*(?:\.\d+)?,
\* "" when there is none
extract_amount(text) ==
    LET starts == {p \in 1..Len(text) :
                      \/ text[p] \in Digit
                      \/ text[p] = "$" /\ AllIn(text, p + 1, p + 1, Digit)}
    IN  IF starts = {} THEN <<>>
        ELSE LET p == Min(starts)
                 d == IF text[p] = "$" THEN p + 1 ELSE p
                 n == Min({AmountDigits, Run(text, d, Digit)})
                 g == d + n + CommaGroups(text, d + n)
                 e == g + Fraction(text, g)
             IN  SubSeq(text, p, e - 1)

\* (?:,\d{3})*(?:\.\d+)?$ matches s from position p to the end of s
RECURSIVE AmountTail(_, _)
AmountTail(s, p) ==
    \/ p = Len(s) + 1
    \/ /\ At(s, p, <<",">>)
       /\ AllIn(s, p + 1, p + 3, Digit)
       /\ AmountTail(s, p + 4)
    \/ /\ At(s, p, <<".">>)
       /\ p + 1 <= Len(s)
       /\ AllIn(s, p + 1, Len(s), Digit)

\* re.search(r'\d{1,3}(?:,\d{3})*(?:\.\d+)?$', text): the match, None when
\* there is none.  The match ends at the end of the text, so it is the rest
\* of the text from the leftmost position a match starts at.
amount_match(text) ==
    LET starts == {p \in 1..Len(text) :
                      \E n \in 1..AmountDigits :
                          AllIn(text, p, p + n - 1, Digit) /\ AmountTail(text, p + n)}
    IN  IF starts = {} THEN None ELSE Some(Rest(text, Min(starts)))

\* re.search(r'\(([^)]+)\)', field_text): group 1, None when there is none
note_match(field_text) ==
    LET closes(p) == {q \in p + 1..Len(field_text) : field_text[q] = ")"}
        opens == {p \in 1..Len(field_text) :
                     /\ field_text[p] = "("
                     /\ closes(p) # {}
                     /\ Min(closes(p)) > p + 1}
    IN  IF opens = {} THEN None
        ELSE LET p == Min(opens)
             IN  Some(SubSeq(field_text, p + 1, Min(closes(p)) - 1))

\* re.match(r'^(\d+)\.?\s+(.+)', text): <<group 1, group 2>>, None when there
\* is no match
numbered_match(text) ==
    LET nd == Run(text, 1, Digit)
        dot == IF At(text, nd + 1, <<".">>) THEN 1 ELSE 0
        ws == Run(text, nd + dot + 1, Space)
        from == nd + dot + ws + 1
        \* \s+ keeps at least one character and gives back as few as let (.+)
        \* start on a character that is no newline
        starts == {q \in (nd + dot + 2)..from : q <= Len(text) /\ text[q] # "\n"}
        start == Max(starts)
    IN  IF nd >= 1 /\ ws >= 1 /\ starts # {}
        THEN Some(<<SubSeq(text, 1, nd),
                    SubSeq(text, start, start + DotRun(text, start) - 1)>>)
        ELSE None

\* text.split(':', 1): <<text>> without a colon, else <<before, after>>
split_colon(text) ==
    LET colons == {p \in 1..Len(text) : text[p] = ":"}
    IN  IF colons = {} THEN <<text>>
        ELSE <<SubSeq(text, 1, Min(colons) - 1), Rest(text, Min(colons) + 1)>>

\* extract_field_value
extract_field_value(text) ==
    IF \E p \in 1..Len(text) : text[p] = ":"
    THEN strip(split_colon(text)[2])
    ELSE strip(text)

\* process_form_field on the element's get_text(): a form_field record, or None
process_form_field(raw) ==
    LET text == strip(raw)
        field_match == numbered_match(text)
    IN  IF field_match # None
        THEN LET field_text == strip(field_match[1][2])
                 amount == amount_match(text)
             IN  Some([type |-> "form_field",
                       number |-> field_match[1][1],
                       text |-> field_text,
                       value |-> amount,
                       note |-> note_match(field_text)])
        ELSE IF \E p \in 1..Len(text) : text[p] = ":"
        THEN LET parts == split_colon(text)
                 key == strip(parts[1])
                 value == strip(parts[2])
                 num_match == numbered_match(key)
             IN  IF num_match # None
                 THEN Some([type |-> "form_field",
                            number |-> num_match[1][1],
                            text |-> strip(num_match[1][2]),
                            value |-> Some(value)])
                 ELSE None
        ELSE None

\* re.match(r'.*Part\s+([IVX]+)(?:\s*[-EnDash]?\s*)?(.+)?', text) with 'Part'
\* at position p: the greedy .* has run over 1..p-1, which holds no newline
PartAt(s, p) ==
    /\ At(s, p, <<"P", "a", "r", "t">>)
    /\ \A k \in 1..(p - 1) : s[k] # "\n"
    /\ Run(s, p + 4, Space) >= 1
    /\ Run(s, p + 4 + Run(s, p + 4, Space), Roman) >= 1

\* extract_section_title on the element's get_text(): <<title, subtitle>>,
\* or None for the pair (None, None)
extract_section_title(raw) ==
    LET text == strip(raw)
        hits == {p \in 1..Len(text) : PartAt(text, p)}
    IN  IF hits = {} THEN None
        ELSE LET p == Max(hits)
                 num == p + 4 + Run(text, p + 4, Space)
                 nlen == Run(text, num, Roman)
                 sep1 == num + nlen + Run(text, num + nlen, Space)
                 dash == IF sep1 <= Len(text) /\ text[sep1] \in {"-", EnDash}
                         THEN sep1 + 1 ELSE sep1
                 sub == dash + Run(text, dash, Space)
                 slen == DotRun(text, sub)
                 part_title == IF sub <= Len(text) /\ slen >= 1
                               THEN strip(SubSeq(text, sub, sub + slen - 1))
                               ELSE <<>>
             IN  Some(<<(<<"P", "a", "r", "t", " ">> \o SubSeq(text, num, num + nlen - 1)),
                        part_title>>)

(***************************************************************************)
(* The document tree                                                       *)
(***************************************************************************)

P(text) == [name |-> "p", text |-> text, trs |-> <<>>]
Tag(name, text) == [name |-> name, text |-> text, trs |-> <<>>]
Table(text, trs) == [name |-> "table", text |-> text, trs |-> trs]
Th(text) == [name |-> "th", text |-> text]
Td(text) == [name |-> "td", text |-> text]

RECURSIVE Concat(_)
Concat(texts) == IF texts = <<>> THEN <<>> ELSE texts[1] \o Concat(Tail(texts))

\* tag.get_text(): the text of the tag and of everything below it
get_text(tag) ==
    tag.text \o Concat([r \in 1..Len(tag.trs) |->
                          Concat([c \in 1..Len(tag.trs[r]) |-> tag.trs[r][c].text])])

\* row.find_all(name): the cells of a row with that tag name
find_cells(row, name) == Pick(row, {c \in 1..Len(row) : row[c].name = name})

\* table.find_all('th'): the header cells of every row, in document order
find_all_th(table) ==
    Concat([r \in 1..Len(table.trs) |-> find_cells(table.trs[r], "th")])

(***************************************************************************)
(* Table Interpreter                                                       *)
(***************************************************************************)

\* the lookback of extract_table_context: at most ContextLimit captions
ContextLimit == 3

ContextTags == {"p", "div", "li"}

\* re.match(r'^\d+\.?\s*$', text)
bare_number(text) ==
    LET nd == Run(text, 1, Digit)
        dot == IF At(text, nd + 1, <<".">>) THEN 1 ELSE 0
    IN  nd >= 1 /\ nd + dot + Run(text, nd + dot + 1, Space) = Len(text)

\* the test of lines 54-57: the sibling's text is collected
collects(tag) ==
    LET text == strip(get_text(tag))
    IN  /\ tag.name \in ContextTags
        /\ text # <<>>
        /\ ~At(text, 1, <<Box>>)
        /\ ~bare_number(text)

\* the while loop of extract_table_context: prev is the position of
\* prev_element among the siblings, 0 when find_previous_sibling() is None
RECURSIVE context_loop(_, _, _)
context_loop(siblings, prev, context) ==
    IF prev >= 1 /\ Len(context) < ContextLimit
    THEN context_loop(siblings, prev - 1,
                      IF collects(siblings[prev])
                      THEN Append(context, strip(get_text(siblings[prev])))
                      ELSE context)
    ELSE context

\* extract_table_context returning ' '.join(context), the captions in the
\* backward order they were collected in
extract_table_context_backward(siblings, k) ==
    join(context_loop(siblings, k - 1, <<>>))

\* extract_table_context for the table at position k of its siblings
extract_table_context(siblings, k) ==
    join(reversed(context_loop(siblings, k - 1, <<>>)))

\* what table.find('tr').find_all('td') raises when the table has no tr
AttributeError == [type |-> "AttributeError"]

\* the body of the row loop: the row record of one tr
row_data(row, header_texts) ==
    LET cells == find_cells(row, "td")
        kept == {c \in 1..Len(cells) : strip(cells[c].text) # <<>>}
        cell_data == [c \in 1..Len(cells) |->
                        [value |-> strip(cells[c].text),
                         header |-> IF c <= Len(header_texts)
                                    THEN Some(header_texts[c]) ELSE None]]
    IN  [cells |-> Pick(cell_data, kept)]

\* the rows that process_table loops over
data_rows(table, headers) ==
    IF headers # <<>> THEN Tail(table.trs) ELSE table.trs

\* process_table appending every row_data, without the test of line 145
kept_rows_unfiltered(rows, header_texts) ==
    [r \in 1..Len(rows) |-> row_data(rows[r], header_texts)]

\* the rows that process_table keeps
kept_rows(rows, header_texts) ==
    LET all == [r \in 1..Len(rows) |-> row_data(rows[r], header_texts)]
    IN  Pick(all, {r \in 1..Len(rows) : all[r].cells # <<>>})

\* process_table for the table at position k of its siblings: the table
\* record, or AttributeError
process_table(siblings, k) ==
    LET table == siblings[k]
        ths == find_all_th(table)
    IN  IF ths = <<>> /\ table.trs = <<>>
        THEN AttributeError
        ELSE LET headers == IF ths # <<>> THEN ths
                            ELSE find_cells(table.trs[1], "td")
                 header_texts == [h \in 1..Len(headers) |-> strip(headers[h].text)]
             IN  [type |-> "table",
                  context |-> extract_table_context(siblings, k),
                  headers |-> header_texts,
                  rows |-> kept_rows(data_rows(table, headers), header_texts)]

(***************************************************************************)
(* Section/Field Assembler: the state of one GenericFormParser and of the  *)
(* parse_html call it is in                                                *)
(***************************************************************************)

VARIABLES
    form_data,              \* self.form_data, the list __init__ creates
    pc,                     \* "idle" after __init__, "loop" inside parse_html,
                            \* "done" after its return, "raised" after it raised
    soup,                   \* the sibling tags of the document being parsed
    elements,               \* the positions in soup of the collected elements
    i,                      \* the position in elements of the second pass
    current_section,        \* the local current_section
    current_section_data,   \* the local current_section_data
    returned,               \* the values parse_html returned to its callers,
                            \* each as it was when it was returned
    base,                   \* len(self.form_data) when the call started
    used,                   \* the number of tags the parser was given so far
    out                     \* the value of a single function call

vars == <<form_data, pc, soup, elements, i, current_section,
          current_section_data, returned, base, used, out>>

\* the tags of soup.find_all([...])
BlockTags == {"p", "div", "table", "li", "span"}

\* the texts of the documents
T_PartI == <<"P", "a", "r", "t", " ", "I">>
T_PartII == <<"P", "a", "r", "t", " ", "I", "I">>
T_Tax == <<"T", "a", "x">>
T_PartII_Tax == T_PartII \o <<" ", "-", " ">> \o T_Tax
T_Ordinal == <<"2">>
T_Description == <<"A", "d", "d", " ", "t", "h", "e", " ",
                   "a", "m", "o", "u", "n", "t", "s">>
T_Amount == <<"3", "1", ",", "4", "5", "0">>
T_Field == T_Ordinal \o <<".", " ">> \o T_Description \o <<" ">> \o T_Amount
T_Ssn == <<"1", "2", "3", "-", "4", "5", "-", "6", "7", "8", "9">>
T_Item == <<"I", "t", "e", "m">>
T_AmountHeader == <<"A", "m", "o", "u", "n", "t">>
T_Wages == <<"W", "a", "g", "e", "s">>
T_50000 == <<"5", "0", ",", "0", "0", "0">>
T_Blank == <<" ">>

\* a header row and one data row
GoodTable == Table(<<>>, << <<Th(T_Item), Th(T_AmountHeader)>>,
                           <<Td(T_Wages), Td(T_50000)>> >>)
\* a header row and a data row of blank cells only
BlankTable == Table(<<>>, << <<Th(T_Item), Th(T_AmountHeader)>>,
                            <<Td(T_Blank), Td(T_Blank)>> >>)
\* <table>Item</table>: text, but no tr and no th
NoRowTable == Table(T_Item, <<>>)
\* one row, its header cell at the side: <tr><th>Item</th><td>Wages</td></tr>
SideHeaderTable == Table(<<>>, << <<Th(T_Item), Td(T_Wages)>> >>)

\* the tags a document is made of
Pool == {P(T_PartI), P(T_PartII_Tax), P(T_Field), P(T_Ssn), P(T_Blank),
         Tag("h2", T_PartII_Tax),
         GoodTable, BlankTable, NoRowTable, SideHeaderTable}

\* the documents a parser is given in its life have at most MaxTags tags
\* together
MaxTags == 3

\* the sequences over S of length at most n
SeqsUpTo(S, n) == UNION {[1..m -> S] : m \in 0..n}


\* the section parse_html starts with (lines 168-173)
DefaultSection ==
    [type |-> "section", title |-> T_PartI, subtitle |-> <<>>, fields |-> <<>>]

\* the state after GenericFormParser()
Init ==
    /\ form_data = <<>>
    /\ pc = "idle"
    /\ soup = <<>>
    /\ elements = <<>>
    /\ i = 0
    /\ current_section = None
    /\ current_section_data = None
    /\ returned = {}
    /\ base = 0
    /\ used = 0
    /\ out = None

\* the first pass (lines 160-165): the block tags with non-empty text
collect_elements(doc) ==
    Pick([k \in 1..Len(doc) |-> k],
         {k \in 1..Len(doc) : /\ doc[k].name \in BlockTags
                              /\ strip(get_text(doc[k])) # <<>>})

\* a closed section put in front of the list instead of appended to it
close_section_in_front(data, section) ==
    IF section # None /\ (section[1].fields # <<>> \/ section[1].title # T_PartI)
    THEN <<section[1]>> \o data
    ELSE data

\* lines 184-185 and 208-209: the list after the section is closed
close_section(data, section) ==
    IF section # None /\ (section[1].fields # <<>> \/ section[1].title # T_PartI)
    THEN Append(data, section[1])
    ELSE data

\* current_section_data['fields'].append(entry)
add_field(section, entry) ==
    Some([section[1] EXCEPT !.fields = Append(@, entry)])

\* parse_html is called on a document: lines 153-173
ParseStart ==
    /\ pc \in {"idle", "done", "raised"}
    /\ \E doc \in SeqsUpTo(Pool, MaxTags - used) :
           /\ used' = used + Len(doc)
           /\ soup' = doc
           /\ elements' = collect_elements(doc)
    /\ current_section' = None
    /\ current_section_data' = Some(DefaultSection)
    /\ i' = 1
    /\ base' = Len(form_data)
    /\ pc' = "loop"
    /\ UNCHANGED <<form_data, returned, out>>

\* the second pass is at an element.  Every collected element has non-empty
\* text, so the "continue" of lines 178-179 is never taken; its test is the
\* second conjunct of each step below.
InLoop == pc = "loop" /\ i <= Len(elements)

element == soup[elements[i]]

\* lines 182-193: the element is a section title
StepSection ==
    /\ InLoop
    /\ strip(get_text(element)) # <<>>
    /\ extract_section_title(get_text(element)) # None
    /\ LET title == extract_section_title(get_text(element))[1]
       IN  /\ form_data' = close_section(form_data, current_section_data)
           /\ current_section' = Some(title[1])
           /\ current_section_data' =
                  Some([type |-> "section", title |-> title[1],
                        subtitle |-> title[2], fields |-> <<>>])
    /\ i' = i + 1
    /\ UNCHANGED <<pc, soup, elements, returned, base, used, out>>

\* lines 196-200: the element is a table
StepTable ==
    /\ InLoop
    /\ strip(get_text(element)) # <<>>
    /\ extract_section_title(get_text(element)) = None
    /\ element.name = "table"
    /\ LET table_data == process_table(soup, elements[i])
       IN  /\ table_data # AttributeError
           /\ current_section_data' =
                  IF table_data.rows # <<>>
                  THEN add_field(current_section_data, table_data)
                  ELSE current_section_data
    /\ i' = i + 1
    /\ UNCHANGED <<form_data, pc, soup, elements, current_section, returned,
                   base, used, out>>

\* line 197: process_table raises and parse_html ends with the exception
StepTableRaises ==
    /\ InLoop
    /\ strip(get_text(element)) # <<>>
    /\ extract_section_title(get_text(element)) = None
    /\ element.name = "table"
    /\ process_table(soup, elements[i]) = AttributeError
    /\ pc' = "raised"
    /\ UNCHANGED <<form_data, soup, elements, i, current_section,
                   current_section_data, returned, base, used, out>>

\* lines 203-205: any other element
StepField ==
    /\ InLoop
    /\ strip(get_text(element)) # <<>>
    /\ extract_section_title(get_text(element)) = None
    /\ element.name # "table"
    /\ LET field_data == process_form_field(get_text(element))
       IN  current_section_data' =
               IF field_data # None
               THEN add_field(current_section_data, field_data[1])
               ELSE current_section_data
    /\ i' = i + 1
    /\ UNCHANGED <<form_data, pc, soup, elements, current_section, returned,
                   base, used, out>>

\* lines 207-211: the loop is over, the last section is closed and
\* self.form_data is returned
ParseReturn ==
    /\ pc = "loop"
    /\ i > Len(elements)
    /\ form_data' = close_section(form_data, current_section_data)
    /\ returned' = returned \cup {form_data'}
    /\ pc' = "done"
    /\ UNCHANGED <<soup, elements, i, current_section, current_section_data,
                   base, used, out>>

Next ==
    \/ ParseStart
    \/ StepSection
    \/ StepTable
    \/ StepTableRaises
    \/ StepField
    \/ ParseReturn

Spec == Init /\ [][Next]_vars

(***************************************************************************)
(* The functions of the parser on their own: a call of one function on an  *)
(* input drawn from a bounded set, its value left in out                   *)
(***************************************************************************)

\* the parser after GenericFormParser(), about to call a function on doc
InitCall(doc) ==
    /\ form_data = <<>>
    /\ pc = "idle"
    /\ soup = doc
    /\ elements = <<>>
    /\ i = 0
    /\ current_section = None
    /\ current_section_data = None
    /\ returned = {}
    /\ base = 0
    /\ used = 0
    /\ out = None

\* what a function call leaves alone
parser_vars == <<form_data, soup, elements, i, current_section,
                 current_section_data, returned, base, used>>

\* extract_table_context: the table is the last tag of soup, after its siblings
T_P1 == <<"P", "1">>
T_P2 == <<"P", "2">>
T_P3 == <<"P", "3">>
T_P4 == <<"P", "4">>
T_P5 == <<"P", "5">>
T_Checkbox == <<Box, " ", "Y", "e", "s">>
T_LineNumber == <<"1", "2", ".">>

SiblingPool == {Tag("p", T_P1), Tag("div", T_P2), Tag("li", T_P3), Tag("p", T_P4),
                Tag("span", T_P5), P(T_Blank), P(T_Checkbox), P(T_LineNumber)}

\* a table has at most MaxSiblings preceding siblings
MaxSiblings == 5

InitContext ==
    \E siblings \in SeqsUpTo(SiblingPool, MaxSiblings) :
        InitCall(Append(siblings, GoodTable))

CallContext ==
    /\ pc = "idle"
    /\ out' = Some(extract_table_context(soup, Len(soup)))
    /\ pc' = "done"
    /\ UNCHANGED parser_vars

SpecContext == InitContext /\ [][CallContext]_vars

\* process_form_field: soup is the one element it is called on
T_Seven == <<"7">>
T_Ten == <<"1", "0">>
T_Total == <<"T", "o", "t", "a", "l">>
T_SeeNote == T_Tax \o <<" ", "(", "s", "e", "e", " ", "n", "o", "t", "e", ")">>
T_500 == <<"5", "0", "0">>
T_1234_50 == <<"1", ",", "2", "3", "4", ".", "5", "0">>
T_Colon == T_Seven \o <<" ">> \o T_Wages \o <<":", " ">> \o T_500
T_KeyValue == T_Item \o <<":", " ">> \o T_Wages

Ordinals == {T_Ordinal, T_Seven, T_Ten}
Separators == {<<".", " ">>, <<" ">>}
Descriptions == {T_Description, T_Total, T_SeeNote, T_Wages}
Amounts == {T_Amount, T_500, T_1234_50}

\* "<ordinal><separator><description> <amount>"
NumberedText(ordinal, separator, description, amount) ==
    ordinal \o separator \o description \o <<" ">> \o amount

FieldTexts ==
    {NumberedText(o, s, d, a) : o \in Ordinals, s \in Separators,
                                d \in Descriptions, a \in Amounts}
    \cup {o \o s \o d : o \in Ordinals, s \in Separators, d \in Descriptions}
    \cup {T_Colon, T_KeyValue, T_Ssn, T_PartI, T_Blank, T_LineNumber}

InitField == \E text \in FieldTexts : InitCall(<<P(text)>>)

CallField ==
    /\ pc = "idle"
    /\ out' = Some(process_form_field(get_text(soup[1])))
    /\ pc' = "done"
    /\ UNCHANGED parser_vars

SpecField == InitField /\ [][CallField]_vars

\* process_table: soup is the one table it is called on
CellPool == {Th(T_Item), Th(T_AmountHeader), Td(T_Wages), Td(T_50000), Td(T_Blank)}

\* a table has at most MaxRows rows of at most MaxCells cells
MaxRows == 2
MaxCells == 2

Tables == {Table(<<>>, trs) : trs \in SeqsUpTo(SeqsUpTo(CellPool, MaxCells), MaxRows)}

InitTable == \E table \in Tables : InitCall(<<table>>)

CallTable ==
    /\ pc = "idle"
    /\ out' = Some(process_table(soup, 1))
    /\ pc' = "done"
    /\ UNCHANGED parser_vars

SpecTable == InitTable /\ [][CallTable]_vars

(***************************************************************************)
(* The properties                                                          *)
(***************************************************************************)

\* the entries a Document holds below its top level, flattened
RECURSIVE FlatCount(_)
FlatCount(doc) ==
    IF doc = <<>> THEN 0
    ELSE (IF doc[1].type = "section" THEN Len(doc[1].fields) ELSE 1)
         + FlatCount(Tail(doc))

\* the fields of the section being built
Building ==
    IF pc = "loop" /\ current_section_data # None
    THEN current_section_data[1].fields
    ELSE <<>>

\* every field or table entry of the Document and of the section being built
Entries ==
    {form_data[k] : k \in {n \in 1..Len(form_data) : form_data[n].type # "section"}}
    \cup UNION {{form_data[k].fields[f] : f \in 1..Len(form_data[k].fields)} :
                  k \in {n \in 1..Len(form_data) : form_data[n].type = "section"}}
    \cup {Building[f] : f \in 1..Len(Building)}

\* the block elements of the document with non-empty trimmed text
NonEmptyBlocks ==
    {k \in 1..Len(soup) :
        /\ soup[k].name \in {"p", "div", "table", "li", "span"}
        /\ strip(get_text(soup[k])) # <<>>}

IsTitle(k) == extract_section_title(get_text(soup[k])) # None

\* C1: the Document a parse_html call returns holds nothing that was in the
\* parser before the call, and every Document returned earlier is still as
\* it was returned.  Every returned reference is self.form_data (line 211),
\* so what an earlier caller holds is now form_data.
C1_FreshAndImmutable ==
    pc = "done" => (base = 0 /\ \A document \in returned : document = form_data)

\* C2: a section that is closed (a title element is seen, or the traversal
\* ends) is appended to the Document if and only if it is not the synthetic
\* default section (current_section is still None) or it has a field.
C2_ClosedSectionAppended ==
    [][(StepSection \/ ParseReturn) =>
          form_data' =
              IF current_section # None \/ current_section_data[1].fields # <<>>
              THEN Append(form_data, current_section_data[1])
              ELSE form_data]_vars

\* C3: after every step of the traversal and on return, the flattened field
\* count of the Document is at most the number of block elements of the
\* input with non-empty trimmed text.
C3_NoInflation ==
    pc \in {"loop", "done"} =>
        FlatCount(form_data) + Len(Building) <= Cardinality(NonEmptyBlocks)

\* C4: parsing never raises: a table with text but without header and rows
\* is discarded and the traversal goes on.
C4_NeverRaises == pc # "raised"

\* C5: no table of the Document or of the section being built has an empty
\* rows sequence, and no row of such a table has zero cells.
C5_NoEmptyTables ==
    \A entry \in Entries :
        entry.type = "table" =>
            /\ entry.rows # <<>>
            /\ \A r \in 1..Len(entry.rows) : entry.rows[r].cells # <<>>

\* a table emptied by the blank-cell filter and a table with a data row have
\* both been parsed, and the Document holds a table
C5_Witness ==
    /\ pc = "done"
    /\ \E k \in 1..Len(soup) : soup[k] = BlankTable
    /\ \E k \in 1..Len(soup) : soup[k] = GoodTable
    /\ \E entry \in Entries : entry.type = "table"

\* C6: the context of a table is the texts of the at most 3 nearest preceding
\* siblings that qualify (tag p, div or li; trimmed text not empty, not
\* starting with the checkbox glyph, not a bare numeric label), joined by
\* single spaces in document order.
C6_Qualifying ==
    {j \in 1..(Len(soup) - 1) :
        LET text == strip(get_text(soup[j]))
        IN  /\ soup[j].name \in {"p", "div", "li"}
            /\ text # <<>>
            /\ text[1] # Box
            /\ ~ \E n \in 1..Len(text) :
                    /\ \A k \in 1..n : text[k] \in Digit
                    /\ n = Len(text) \/ (n + 1 = Len(text) /\ text[n + 1] = ".")}

C6_Nearest ==
    {j \in C6_Qualifying : Cardinality({q \in C6_Qualifying : q > j}) < 3}

C6_ContextForwardOrder ==
    pc = "done" =>
        out = Some(join(Pick([j \in 1..Len(soup) |-> strip(get_text(soup[j]))],
                             C6_Nearest)))

\* four siblings qualify, so the limit of 3 cuts one off, and a sibling that
\* does not qualify stands between the three nearest
C6_Witness ==
    /\ pc = "done"
    /\ Cardinality(C6_Qualifying) >= 4
    /\ \E j \in 1..(Len(soup) - 1) :
          /\ j \notin C6_Qualifying
          /\ j > Min(C6_Nearest)
          /\ j < Max(C6_Nearest)

\* C7: for an element whose text is an ordinal, a description and a trailing
\* amount, process_form_field yields that amount as the value and the
\* description without the amount as the text.
C7_AmountNotInDescription ==
    pc = "done" =>
        \A o \in Ordinals, s \in Separators, d \in Descriptions, a \in Amounts :
            get_text(soup[1]) = NumberedText(o, s, d, a) =>
                /\ out[1] # None
                /\ out[1][1].value = Some(a)
                /\ out[1][1].text = d

\* C8: an element whose text is the SSN-shaped 123-45-6789 gives the Document
\* an Identifier entry with that text, and no Amount entry.
C8_SsnIsIdentifier ==
    (pc = "done" /\ \E k \in NonEmptyBlocks : soup[k] = P(T_Ssn)) =>
        /\ \E entry \in Entries : entry.type = "identifier" /\ entry.raw = T_Ssn
        /\ \A entry \in Entries : entry.type # "amount"

\* C9: the first row is left out of the data rows only when its cells were
\* used as the headers (the table has no th); with th cells in the table,
\* every row with a non-empty td yields a row record, the first row too.
\* Each kept cell has the header at its index among the td cells of its row.
C9_Rows(table) ==
    LET ths == find_all_th(table)
        headers == IF ths # <<>> THEN ths ELSE find_cells(table.trs[1], "td")
        texts == [h \in 1..Len(headers) |-> strip(headers[h].text)]
        data == IF ths # <<>> THEN table.trs ELSE Tail(table.trs)
        record(row) ==
            LET tds == find_cells(row, "td")
            IN  [cells |->
                   Pick([c \in 1..Len(tds) |->
                           [value |-> strip(tds[c].text),
                            header |-> IF c <= Len(texts)
                                       THEN Some(texts[c]) ELSE None]],
                        {c \in 1..Len(tds) : strip(tds[c].text) # <<>>})]
    IN  Pick([r \in 1..Len(data) |-> record(data[r])],
             {r \in 1..Len(data) : record(data[r]).cells # <<>>})

C9_FirstRowKept ==
    (pc = "done" /\ soup[1].trs # <<>>) =>
        /\ out[1].type = "table"
        /\ out[1].rows = C9_Rows(soup[1])

\* C10: parse_html always has an active section.  On a parser that holds
\* nothing yet, every top-level entry of the returned Document is a section;
\* the fields and non-empty tables before the first title element are, in
\* document order, the fields of a section 'Part I' with empty subtitle that
\* is the first section of the Document; without such fields there are only
\* the sections of title elements.
C10_EntryOf(k) ==
    IF soup[k].name = "table"
    THEN LET table == process_table(soup, k)
         IN  IF table.rows # <<>> THEN <<table>> ELSE <<>>
    ELSE process_form_field(get_text(soup[k]))

C10_Titles == {j \in 1..Len(elements) : IsTitle(elements[j])}

C10_Leading ==
    LET first == IF C10_Titles = {} THEN Len(elements) + 1 ELSE Min(C10_Titles)
    IN  Concat([j \in 1..(first - 1) |-> C10_EntryOf(elements[j])])

C10_AlwaysInSection ==
    /\ pc = "loop" => current_section_data # None
    /\ (pc = "done" /\ base = 0) =>
          /\ \A k \in 1..Len(form_data) : form_data[k].type = "section"
          /\ IF C10_Leading # <<>>
             THEN /\ form_data # <<>>
                  /\ form_data[1] = [type |-> "section", title |-> T_PartI,
                                     subtitle |-> <<>>, fields |-> C10_Leading]
                  /\ Len(form_data) <= 1 + Cardinality(C10_Titles)
             ELSE Len(form_data) <= Cardinality(C10_Titles)

\* a field stands before the first title element, and the Document holds the
\* default section and the section of a title element after it
C10_Witness ==
    /\ pc = "done"
    /\ base = 0
    /\ C10_Leading # <<>>
    /\ C10_Titles # {}
    /\ Len(form_data) >= 2

====
